---- MODULE Spec2Model ----
(***************************************************************************)
(* reading-graph: the similarity graph build (BookGraph.jsx, graphData)    *)
(* and the selection state machine (handleNodeClick, handleReset) with     *)
(* the per-click enrichment calls and the merge into the owner's book      *)
(* list (updateBookInState, GraphPage.onBookUpdate); the quote bookmarks   *)
(* of QuotesPanel and BookmarksView over localStorage.                     *)
(*                                                                         *)
(* Numbers with one decimal (opacity, link strength) are kept in tenths:   *)
(* opacity 1 is 10, opacity 0.2 is 2, strength 0.7 + 0.1*n is 7 + n.       *)
(* List positions are 0-based as in the source; Sequences are 1-based, so  *)
(* the book at source index i is books[i + 1].                             *)
(***************************************************************************)
EXTENDS Integers, Sequences, FiniteSets, TLC

VARIABLES
    mounted,          \* GraphPage: the load-books effect has run
    books,            \* GraphPage books state = BookGraph's books prop
    stored,           \* localStorage['readingGraphBooks']
    selectedNode,     \* BookGraph selectedNode (its id), NoNode for null
    relatedNodeIds,   \* BookGraph relatedNodeIds
    selectedBook,     \* BookGraph selectedBook, <<>> for null, <<b>> else
    isAnalyzing,      \* BookGraph isAnalyzing
    calls,            \* handleNodeClick invocations suspended at the await
    isNodeSelected,   \* GraphPage isNodeSelected
    notifyTimers,     \* pending setTimeout callbacks of the notify effect
    event,            \* history: the handler that ran last
    page,             \* the route whose component is mounted
    storedBookmarks,  \* localStorage['bookmarkedQuotes']
    bookmarkedQuotes, \* QuotesPanel bookmarkedQuotes (a Set)
    viewBookmarks,    \* BookmarksView bookmarks
    bookmarkEvent,    \* history: the bookmark handler that ran last
    now,              \* the clock new Date() reads, in days
    pulse,            \* BookGraph pulse-animation effect: its closure, the
                      \* browser's pending animation frames, pulsePhase
    csv,              \* UploadPage: the uploaded file's lines and the book
                      \* list ingest made of them
    recency,          \* one evaluation of isRecentlyRead: the viewer's clock
                      \* and time zone, the dateRead text, the result
    paint,            \* one evaluation of getNodeColor: the book's rating
                      \* and the colour the node is drawn in
    activeFilters,    \* GraphPage: the filter flags of the sidebar
    groq,             \* one call of callGroqAPI: its position, its loop
                      \* variables, the requests sent and how they ended
    upload            \* UploadPage: one run of processFile after parsing

\* the state of the bookmark feature (QuotesPanel, BookmarksView)
bookmarkVars == <<page, storedBookmarks, bookmarkedQuotes, viewBookmarks,
                  bookmarkEvent>>

\* the state of the graph page (GraphPage, BookGraph)
graphVars == <<mounted, books, stored, selectedNode, relatedNodeIds,
               selectedBook, isAnalyzing, calls, isNodeSelected, notifyTimers,
               event, now>>

vars == <<mounted, books, stored, selectedNode, relatedNodeIds, selectedBook,
          isAnalyzing, calls, isNodeSelected, notifyTimers, event,
          page, storedBookmarks, bookmarkedQuotes, viewBookmarks,
          bookmarkEvent, now, pulse, csv, recency,
          paint, activeFilters, groq, upload>>

\* the state of the effects and calls that run beside the two
otherVars == <<pulse, csv, recency, paint, activeFilters, groq, upload>>

----------------------------------------------------------------------------
(* Bounds *)

MaxCalls == 2       \* enrichment calls in flight at once
MaxTimers == 1      \* pending selection-notification timers
BuildBooks == 3     \* books in a list of the graph-build specification
WideBooks == 5      \* books in a list of the wide graph-build specification
MergeBooks == 3     \* books in a list of the merge specification
MaxBookmarks == 3   \* entries of the stored bookmark list
MaxNow == 2         \* days the clock advances
MaxFrames == 6      \* animation frames that run
MaxRows == 2        \* data lines of an uploaded file
MaxRatingLen == 3   \* characters of a rating text
MaxReplyThemes == 6 \* themes in one reply of the remote model
MaxReplyQuotes == 4 \* quotes of each theme in one reply
MaxRetries == 3     \* largest maxRetries callGroqAPI is called with

----------------------------------------------------------------------------
(* Data *)

NoId == ""          \* a record without id (undefined / '' are both falsy)
NoNode == ""        \* selectedNode = null
NoDate == <<>>      \* dateRead missing; <<d>> for a date read on day d

ThemeNames == {"X", "Y"}

QuoteOf == [n \in ThemeNames |-> IF n = "X" THEN "qx" ELSE "qy"]

\* one entry of analysisResult.themes: { theme, quotes }
Theme(n) == [theme |-> n, quotes |-> <<QuoteOf[n]>>]

SeqsUpTo(S, k) == UNION {[1..m -> S] : m \in 0..k}

ThemeLists(k) == SeqsUpTo({Theme(n) : n \in ThemeNames}, k)

RECURSIVE FlatQuotes(_)
\* themes.flatMap(theme => theme.quotes || [])
FlatQuotes(themes) ==
    IF themes = <<>> THEN <<>>
    ELSE Head(themes).quotes \o FlatQuotes(Tail(themes))

Book(id, title, author, themes) ==
    [id |-> id, title |-> title, author |-> author, dateRead |-> NoDate,
     rating |-> <<"5">>, shelves |-> {},
     themes |-> themes, quotes |-> FlatQuotes(themes)]

\* the record with the Date Read column filled in
ReadOn(book, dateRead) == [book EXCEPT !.dateRead = dateRead]

Rated(book, rating) == [book EXCEPT !.rating = rating]

Shelved(book, shelves) == [book EXCEPT !.shelves = shelves]

SynthTable == <<"book-0", "book-1", "book-2", "book-3", "book-4", "book-5",
                "book-6", "book-7">>

\* `book-${index}` for a 0-based index
SynthId(index) == SynthTable[index + 1]

\* book.id || `book-${index}`
\* (variant: the fallback counts positions from 1)
NodeIdOfOneBased(book, index) ==
    IF book.id # NoId THEN book.id ELSE SynthId(index + 1)

NodeIdOf(book, index) == IF book.id # NoId THEN book.id ELSE SynthId(index)

\* (book.themes || []).map(t => typeof t === 'string' ? t : t.theme)
ThemeNamesOf(book) == [k \in 1..Len(book.themes) |-> book.themes[k].theme]

\* Array.prototype.includes
Includes(s, x) == \E k \in 1..Len(s) : s[k] = x

\* Array.prototype.find over positions: the first member of the set of
\* matching positions (1-based), 0 when nothing matches
FirstOf(matching) ==
    IF matching = {} THEN 0
    ELSE CHOOSE k \in matching : \A m \in matching : k <= m

----------------------------------------------------------------------------
(* Ratings as text *)

\* A rating is the sequence of the characters of rating.toString(); <<>>
\* stands for the falsy ratings (null, "", the number 0).
DigitChars == <<"0", "1", "2", "3", "4", "5", "6", "7", "8", "9">>
Digits == {DigitChars[k] : k \in 1 .. 10}
DigitValue(c) == (CHOOSE k \in 1 .. 10 : DigitChars[k] = c) - 1

NotRated == <<"N", "o", "t", " ", "r", "a", "t", "e", "d">>

\* rating: book.rating || 'Not rated', line 81
NodeRating(rating) == IF rating = <<>> THEN NotRated ELSE rating

\* .replace(/[^0-9.]/g, ''), line 320
StripNonNumeric(text) ==
    SelectSeq(text, LAMBDA c : c \in Digits \cup {"."})

RECURSIVE LeadingDigits(_)
LeadingDigits(text) ==
    IF text # <<>> /\ text[1] \in Digits THEN 1 + LeadingDigits(Tail(text))
    ELSE 0

RECURSIVE DecimalValue(_)
DecimalValue(digits) ==
    IF digits = <<>> THEN 0
    ELSE 10 * DecimalValue(SubSeq(digits, 1, Len(digits) - 1))
         + DigitValue(digits[Len(digits)])

\* parseFloat of a text of digits and dots: the longest prefix of the form
\* digits [. digits] with at least one digit, in tenths and cut after the
\* first decimal (the thresholds are whole numbers); <<>> for NaN
parseFloat(text) ==
    LET n == LeadingDigits(text)
        rest == SubSeq(text, n + 1, Len(text))
        decimals == IF rest # <<>> /\ rest[1] = "."
                    THEN LeadingDigits(Tail(rest)) ELSE 0
    IN IF n = 0 /\ decimals = 0 THEN <<>>
       ELSE <<10 * DecimalValue(SubSeq(text, 1, n))
              + (IF decimals > 0 THEN DigitValue(rest[2]) ELSE 0)>>

----------------------------------------------------------------------------
(* Filters: GraphPage (part_000) and FilterSidebar (BookGraph.jsx 565-770) *)

FilterNames == {"all", "topRated", "last20", "fiction", "selfHelp", "memoirs"}

\* useState of part_000 lines 12-19
AllBooks == [f \in FilterNames |-> f = "all"]

\* handleFilterChange, BookGraph.jsx lines 577-609: the new filter flags
\* (variant: lines 590-592 left out, so checking a specific filter leaves
\* "all" as it is)
handleFilterChangeKeepAll(filters, filterName, checked) ==
    LET newFilters == [filters EXCEPT ![filterName] = checked]
        otherFiltersActive ==
            \E key \in FilterNames \ {"all", filterName} : newFilters[key]
    IN IF filterName = "all" /\ checked
       THEN AllBooks
       ELSE IF filterName # "all" /\ ~checked /\ ~otherFiltersActive
       THEN [newFilters EXCEPT !["all"] = TRUE, ![filterName] = FALSE]
       ELSE newFilters

handleFilterChange(filters, filterName, checked) ==
    LET newFilters == [filters EXCEPT ![filterName] = checked]
        otherFiltersActive ==
            \E key \in FilterNames \ {"all", filterName} : newFilters[key]
    IN IF filterName = "all" /\ checked
       THEN AllBooks
       ELSE IF filterName # "all" /\ checked
       THEN [newFilters EXCEPT !["all"] = FALSE]
       ELSE IF filterName # "all" /\ ~checked /\ ~otherFiltersActive
       THEN [newFilters EXCEPT !["all"] = TRUE, ![filterName] = FALSE]
       ELSE newFilters

\* parseDate, part_000 lines 62-90, in days: new Date(0) for a missing date
parseDate(dateRead) == IF dateRead = NoDate THEN 0 - 20000 ELSE dateRead[1]

\* filtered.sort((a, b) => dateB - dateA), lines 128-132: stable, latest
\* first
RECURSIVE InsertByDate(_, _)
InsertByDate(sorted, book) ==
    IF sorted = <<>> THEN <<book>>
    ELSE IF parseDate(Head(sorted).dateRead) >= parseDate(book.dateRead)
         THEN <<Head(sorted)>> \o InsertByDate(Tail(sorted), book)
         ELSE <<book>> \o sorted

RECURSIVE SortByDate(_)
SortByDate(list) ==
    IF list = <<>> THEN <<>>
    ELSE InsertByDate(SortByDate(SubSeq(list, 1, Len(list) - 1)),
                      list[Len(list)])

\* slice(0, 20), line 134
Last20 == 20

\* hasGenre, lines 93-103: a keyword occurs in the text of the book's
\* shelves.  A book's shelves are a set of shelf names; Occurs lists the
\* pairs (shelf name, keyword) where the keyword is part of the name.
Occurs ==
    {<<"fiction", "fiction">>, <<"non-fiction", "fiction">>,
     <<"non-fiction", "non-fiction">>, <<"memoir", "memoir">>}

hasGenre(book, genreKeywords) ==
    \E shelf \in book.shelves, keyword \in genreKeywords :
        <<shelf, keyword>> \in Occurs

FictionKeywords ==
    {"fiction", "novel", "literary fiction", "contemporary fiction"}
SelfHelpKeywords ==
    {"self-help", "self help", "non-fiction", "nonfiction",
     "personal development", "psychology", "business"}
MemoirKeywords == {"memoir", "memoirs", "autobiography", "biography"}

\* filterBooks, part_000 lines 106-157
filterBooks(booksList, filters) ==
    IF Len(booksList) = 0 THEN <<>>
    ELSE IF filters["all"] THEN booksList
    ELSE LET rated(book) ==
                 LET parsed == parseFloat(book.rating)
                 IN parsed # <<>> /\ parsed[1] >= 40
             topRated == IF filters["topRated"]
                         THEN SelectSeq(booksList, rated) ELSE booksList
             sorted == SortByDate(topRated)
             last20 == IF filters["last20"]
                       THEN SubSeq(sorted, 1, IF Len(sorted) < Last20
                                              THEN Len(sorted) ELSE Last20)
                       ELSE topRated
             fiction == IF filters["fiction"]
                        THEN SelectSeq(last20,
                                 LAMBDA b : hasGenre(b, FictionKeywords))
                        ELSE last20
             selfHelp == IF filters["selfHelp"]
                         THEN SelectSeq(fiction,
                                  LAMBDA b : hasGenre(b, SelfHelpKeywords))
                         ELSE fiction
         IN IF filters["memoirs"]
            THEN SelectSeq(selfHelp, LAMBDA b : hasGenre(b, MemoirKeywords))
            ELSE selfHelp

\* the books prop of BookGraph: filteredBooks, part_000 lines 160-162, 332
filteredBooks == filterBooks(books, activeFilters)

----------------------------------------------------------------------------
(* Graph build: BookGraph.jsx graphData *)

\* variants of the node mapper: line 88 without the dimming branch, and
\* lines 73 and 88 without the test of selectedNode
\* line 67, for a difference counted in units of which perDay make a day
WithinThirtyDays(diff, perDay) == diff <= 30 * perDay /\ diff >= 0

\* isRecentlyRead, lines 62-68, with days for milliseconds and the day a
\* date parses to in place of its text
isRecentlyRead(dateRead) ==
    IF dateRead = NoDate THEN FALSE
    ELSE LET daysDiff == now - dateRead[1]
         IN WithinThirtyDays(daysDiff, 1)

\* The same function with hours for milliseconds and the text of the date
\* parsed as new Date(dateRead) parses it.  A dateRead text is "" (missing),
\* or names a calendar day in the date-only ISO form (2024-01-15), which
\* Date reads as midnight UTC, or in the form of the Goodreads export
\* (2024/01/15), which Date reads as midnight of the viewer's time zone, or
\* is text Date cannot read.  The viewer's zone is tz hours ahead of UTC.
\* The result is <<>> (Invalid Date) or <<hour>> in hours UTC.
NoText == [form |-> "missing", day |-> 0]
Unparseable == [form |-> "unparseable", day |-> 0]
DateText(form, day) == [form |-> form, day |-> day]

DateParse(text, tz) ==
    IF text.form = "iso" THEN <<24 * text.day>>
    ELSE IF text.form = "slash" THEN <<24 * text.day - tz>>
    ELSE <<>>

isRecentlyReadAt(text, utcNow, tz) ==
    IF text = NoText THEN FALSE
    ELSE LET readDate == DateParse(text, tz)
         IN IF readDate = <<>> THEN FALSE   \* NaN compares false
            ELSE WithinThirtyDays(utcNow - readDate[1], 24)

\* one build of a node for a book with this dateRead, by a viewer whose
\* clock shows utcNow and whose zone is tz
BuildAt(text, utcNow, tz) ==
    /\ recency' = [built |-> TRUE, dateRead |-> text, utcNow |-> utcNow,
                   tz |-> tz, isRecent |-> isRecentlyReadAt(text, utcNow, tz)]
    /\ UNCHANGED <<graphVars, bookmarkVars, pulse, csv, paint,
                   activeFilters, groq, upload>>

GraphNodeNoDim(bs, sel, rel, index) ==
    LET book == bs[index + 1]
        nodeId == NodeIdOf(book, index)
        isRelated == IF sel # NoNode THEN nodeId \in rel ELSE TRUE
        isSelected == sel # NoNode /\ nodeId = sel
    IN [id |-> nodeId,
        name |-> book.title,
        themes |-> book.themes,
        dateRead |-> book.dateRead,
        isRecent |-> isRecentlyRead(book.dateRead),
        isRelated |-> isRelated,
        isSelected |-> isSelected,
        opacity |-> 10]

\* (variant: recently read nodes are never dimmed)
GraphNodeRecentOpaque(bs, sel, rel, index) ==
    LET book == bs[index + 1]
        nodeId == NodeIdOf(book, index)
        isRelated == IF sel # NoNode THEN nodeId \in rel ELSE TRUE
        isSelected == sel # NoNode /\ nodeId = sel
    IN [id |-> nodeId,
        name |-> book.title,
        themes |-> book.themes,
        dateRead |-> book.dateRead,
        isRecent |-> isRecentlyRead(book.dateRead),
        isRelated |-> isRelated,
        isSelected |-> isSelected,
        opacity |-> IF sel # NoNode /\ ~isRecentlyRead(book.dateRead)
                    THEN (IF isRelated \/ isSelected THEN 10 ELSE 2)
                    ELSE 10]

GraphNodeDimIdle(bs, sel, rel, index) ==
    LET book == bs[index + 1]
        nodeId == NodeIdOf(book, index)
        isRelated == nodeId \in rel
        isSelected == sel # NoNode /\ nodeId = sel
    IN [id |-> nodeId,
        name |-> book.title,
        themes |-> book.themes,
        dateRead |-> book.dateRead,
        isRecent |-> isRecentlyRead(book.dateRead),
        isRelated |-> isRelated,
        isSelected |-> isSelected,
        opacity |-> IF isRelated \/ isSelected THEN 10 ELSE 2]

GraphNode(bs, sel, rel, index) ==
    LET book == bs[index + 1]
        nodeId == NodeIdOf(book, index)
        isRelated == IF sel # NoNode THEN nodeId \in rel ELSE TRUE
        isSelected == sel # NoNode /\ nodeId = sel
    IN [id |-> nodeId,
        name |-> book.title,
        themes |-> book.themes,
        dateRead |-> book.dateRead,
        isRecent |-> isRecentlyRead(book.dateRead),
        isRelated |-> isRelated,
        isSelected |-> isSelected,
        opacity |-> IF sel # NoNode
                    THEN (IF isRelated \/ isSelected THEN 10 ELSE 2)
                    ELSE 10]

GraphNodes(bs, sel, rel) ==
    [k \in 1..Len(bs) |-> GraphNode(bs, sel, rel, k - 1)]

\* books.find(b => (b.id || `book-${i}`) === nodeId): the fallback id uses
\* the index of the node being looked up, not the position of b
LinkBook(bs, i, nodeId) ==
    FirstOf({k \in 1..Len(bs) : NodeIdOf(bs[k], i) = nodeId})

\* themes1.filter(t => themes2.includes(t))
\* (variant: only the first theme of book1 is looked up in book2)
SharedThemesOfFirst(book1, book2) ==
    LET themes1 == ThemeNamesOf(book1)
        themes2 == ThemeNamesOf(book2)
    IN SelectSeq(SubSeq(themes1, 1, IF themes1 = <<>> THEN 0 ELSE 1),
                 LAMBDA t : Includes(themes2, t))

SharedThemes(book1, book2) ==
    LET themes1 == ThemeNamesOf(book1)
        themes2 == ThemeNamesOf(book2)
    IN SelectSeq(themes1, LAMBDA t : Includes(themes2, t))

\* the body of the inner loop for the pair (i, j): <<link>> or <<>>
LinkOfPair(bs, nodes, sel, rel, i, j) ==
    LET node1 == nodes[i + 1]
        node2 == nodes[j + 1]
        b1 == LinkBook(bs, i, node1.id)
        b2 == LinkBook(bs, j, node2.id)
    IN IF b1 = 0 \/ b2 = 0 THEN <<>>
       ELSE LET sharedThemes == SharedThemes(bs[b1], bs[b2])
            IN IF Len(sharedThemes) > 0
               THEN << [source |-> node1.id,
                        target |-> node2.id,
                        theme |-> sharedThemes[1],
                        strength |-> 7 + Len(sharedThemes),
                        isVisible |-> IF sel # NoNode
                                      THEN node1.id \in rel /\ node2.id \in rel
                                      ELSE TRUE] >>
               ELSE <<>>

\* first value of the inner index j for the outer index i; the two
\* variants are the off-by-one slips of the loop header (j = i, j = i + 2)
InnerStartAtSelf(i) == i

InnerStartSkipNext(i) == i + 2

InnerStart(i) == i + 1

RECURSIVE LinksLoop(_, _, _, _, _, _)
\* for (i = 0; i < n; i++) for (j = i + 1; j < n; j++) ...
LinksLoop(bs, nodes, sel, rel, i, j) ==
    IF i >= Len(nodes) THEN <<>>
    ELSE IF j >= Len(nodes)
         THEN LinksLoop(bs, nodes, sel, rel, i + 1, InnerStart(i + 1))
         ELSE LinkOfPair(bs, nodes, sel, rel, i, j)
              \o LinksLoop(bs, nodes, sel, rel, i, j + 1)

graphData(bs, sel, rel) ==
    IF Len(bs) = 0 THEN [nodes |-> <<>>, links |-> <<>>]
    ELSE LET nodes == GraphNodes(bs, sel, rel)
         IN [nodes |-> nodes,
             links |-> IF Len(nodes) >= 2
                       THEN LinksLoop(bs, nodes, sel, rel, 0, InnerStart(0))
                       ELSE <<>>]

\* the graph the component renders in the current state
Graph == graphData(filteredBooks, selectedNode, relatedNodeIds)

----------------------------------------------------------------------------
(* Selection state machine: BookGraph.jsx handleNodeClick / handleReset *)

\* books.find(b => (b.id || `book-${books.indexOf(b)}`) === node.id)
ClickBook(bs, nodeId) ==
    FirstOf({k \in 1..Len(bs) : NodeIdOf(bs[k], k - 1) = nodeId})

\* lines 227-243: the related set of the clicked node over the list bs
\* (variant: the forEach of lines 231-241 left out)
RelatedIdsSelfOnly(bs, nodeId, bookToUse) == {nodeId}

RelatedIds(bs, nodeId, bookToUse) ==
    LET selectedThemes == ThemeNamesOf(bookToUse)
        hasSharedTheme(bookItem) ==
            \E k \in 1..Len(selectedThemes) :
                Includes(ThemeNamesOf(bookItem), selectedThemes[k])
    IN {nodeId} \cup
       {NodeIdOf(bs[k], k - 1) : k \in
           {m \in 1..Len(bs) : /\ NodeIdOf(bs[m], m - 1) # nodeId
                               /\ hasSharedTheme(bs[m])}}

\* { ...book, ...updatedData }
Merged(book, updatedData) ==
    [book EXCEPT !.themes = updatedData.themes, !.quotes = updatedData.quotes]

\* updateBookInState: the new list, computed from the list bs the handler
\* captured when it was invoked
updateBookInState(bs, bookToUpdate, updatedData) ==
    [k \in 1..Len(bs) |->
        LET book == bs[k]
            matchesById == /\ bookToUpdate.id # NoId
                           /\ book.id # NoId
                           /\ bookToUpdate.id = book.id
            matchesByTitleAuthor == /\ bookToUpdate.title = book.title
                                    /\ bookToUpdate.author = book.author
        IN IF matchesById \/ matchesByTitleAuthor
           THEN Merged(book, updatedData)
           ELSE book]

RemoveAt(s, k) == [m \in 1..(Len(s) - 1) |-> IF m < k THEN s[m] ELSE s[m + 1]]

\* history record: which of the handlers load, click, reset and call
\* completion ran last, for which node and call
\* (call = position in calls), what analyzeBook resolved with, and whether
\* the completed call had been started by the handler that ran just before
EvFull(op, node, call, themes, direct) ==
    [op |-> op, node |-> node, call |-> call, themes |-> themes,
     direct |-> direct]

Ev(op, node, call) == EvFull(op, node, call, <<>>, FALSE)

IsDirect(k) == event.op = "click" /\ event.call = k

\* the useEffect of lines 268-278 runs after a render in which onReset,
\* selectedNode or books changed and starts a timer when a node is selected
Scheduled(ran, sel) == ran /\ sel # NoNode

\* handleReset, lines 255-265, with GraphPage's onReset (part_000 333-337)
\* (variant: line 257 left out)
ResetKeepingRelated ==
    /\ selectedNode' = NoNode
    /\ selectedBook' = <<>>
    /\ isNodeSelected' = FALSE
    /\ UNCHANGED relatedNodeIds

HandleReset ==
    /\ selectedNode' = NoNode
    /\ relatedNodeIds' = {}
    /\ selectedBook' = <<>>
    /\ isNodeSelected' = FALSE

\* the node ids a click can carry: the nodes of the rendered graph
ClickableIds ==
    {NodeIdOf(filteredBooks[k], k - 1) : k \in 1..Len(filteredBooks)}

\* the guard of lines 175-179 (variant: the guard left out)
IsReclickNever(nodeId) == FALSE

IsReclick(nodeId) == selectedNode # NoNode /\ selectedNode = nodeId

\* history label of a click: on the selected node or on another one
ClickOp(nodeId) == IF selectedNode = nodeId THEN "reclick" ELSE "click"

\* handleNodeClick up to its first suspension point (or to its end when the
\* book already has themes)
\* (variant: the handler returns at once while an analysis is marked in
\* flight)
NodeClickWhenIdle(nodeId) ==
    /\ mounted
    /\ nodeId \in ClickableIds
    /\ UNCHANGED <<bookmarkVars, otherVars, now>>
    /\ ~isAnalyzing
    /\ IF IsReclick(nodeId)
       THEN /\ HandleReset
            /\ event' = Ev(ClickOp(nodeId), nodeId, 0)
            /\ UNCHANGED <<mounted, books, stored, isAnalyzing, calls,
                           notifyTimers>>
       ELSE LET b == ClickBook(filteredBooks, nodeId) IN
            /\ notifyTimers < MaxTimers
            /\ notifyTimers' = notifyTimers + 1
            /\ selectedNode' = nodeId
            /\ IF b = 0
               THEN /\ event' = Ev(ClickOp(nodeId), nodeId, 0)
                    /\ UNCHANGED <<relatedNodeIds, selectedBook, isAnalyzing,
                                   calls>>
               ELSE IF Len(filteredBooks[b].themes) = 0
               THEN /\ Len(calls) < MaxCalls
                    /\ isAnalyzing' = TRUE
                    /\ calls' = Append(calls, [node |-> nodeId,
                                               book |-> filteredBooks[b],
                                               books |-> filteredBooks])
                    /\ event' = Ev(ClickOp(nodeId), nodeId, Len(calls) + 1)
                    /\ UNCHANGED <<relatedNodeIds, selectedBook>>
               ELSE /\ selectedBook' = <<filteredBooks[b]>>
                    /\ relatedNodeIds' = RelatedIds(filteredBooks, nodeId,
                                                 filteredBooks[b])
                    /\ event' = Ev(ClickOp(nodeId), nodeId, 0)
                    /\ UNCHANGED <<isAnalyzing, calls>>
            /\ UNCHANGED <<mounted, books, stored, isNodeSelected>>

NodeClick(nodeId) ==
    /\ mounted
    /\ nodeId \in ClickableIds
    /\ UNCHANGED <<bookmarkVars, otherVars, now>>
    /\ IF IsReclick(nodeId)
       THEN /\ HandleReset
            /\ event' = Ev(ClickOp(nodeId), nodeId, 0)
            /\ UNCHANGED <<mounted, books, stored, isAnalyzing, calls,
                           notifyTimers>>
       ELSE LET b == ClickBook(filteredBooks, nodeId) IN
            /\ notifyTimers < MaxTimers
            /\ notifyTimers' = notifyTimers + 1
            /\ selectedNode' = nodeId
            /\ IF b = 0
               THEN /\ event' = Ev(ClickOp(nodeId), nodeId, 0)
                    /\ UNCHANGED <<relatedNodeIds, selectedBook, isAnalyzing,
                                   calls>>
               ELSE IF Len(filteredBooks[b].themes) = 0
               THEN /\ Len(calls) < MaxCalls
                    /\ isAnalyzing' = TRUE
                    /\ calls' = Append(calls, [node |-> nodeId,
                                               book |-> filteredBooks[b],
                                               books |-> filteredBooks])
                    /\ event' = Ev(ClickOp(nodeId), nodeId, Len(calls) + 1)
                    /\ UNCHANGED <<relatedNodeIds, selectedBook>>
               ELSE /\ selectedBook' = <<filteredBooks[b]>>
                    /\ relatedNodeIds' = RelatedIds(filteredBooks, nodeId,
                                                 filteredBooks[b])
                    /\ event' = Ev(ClickOp(nodeId), nodeId, 0)
                    /\ UNCHANGED <<isAnalyzing, calls>>
            /\ UNCHANGED <<mounted, books, stored, isNodeSelected>>

\* what analyzeBook can resolve with: a validated themes array
AnalysisResults == {<<Theme("X")>>, <<Theme("Y")>>}

\* a reply of the remote model that passes the validation of analyzeBook
\* (geminiAPI.js lines 176-181: themes is an array): t themes of the fixed
\* list, each with q quotes
ReplyThemeNames ==
    <<"Identity & Self", "Emotional Health", "Love & Relationships",
      "Power & Strategy", "Existentialism", "Science & Universe",
      "War & Conflict", "Time & Memory", "Morality & Ethics", "Human Nature",
      "Dystopia">>

Reply(t, q) ==
    [k \in 1 .. t |-> [theme |-> ReplyThemeNames[k],
                       quotes |-> [j \in 1 .. q |-> "q"]]]

\* the list handed to localStorage and onBookUpdate
MergeBase(c) == c.books

\* handleNodeClick resumed after analyzeBook resolved: lines 198-214,
\* 219-221, 227-243
AnalyzeSuccess(k, themes) ==
    LET c == calls[k]
        updatedData == [themes |-> themes, quotes |-> FlatQuotes(themes)]
        bookToUse == Merged(c.book, updatedData)
        updatedBooks == updateBookInState(MergeBase(c), c.book, updatedData)
    IN /\ Scheduled(TRUE, selectedNode) => notifyTimers < MaxTimers
       /\ notifyTimers' = IF Scheduled(TRUE, selectedNode)
                          THEN notifyTimers + 1 ELSE notifyTimers
       /\ stored' = updatedBooks
       /\ books' = updatedBooks
       /\ selectedBook' = <<bookToUse>>
       /\ isAnalyzing' = FALSE
       /\ relatedNodeIds' = RelatedIds(c.books, c.node, bookToUse)
       /\ calls' = RemoveAt(calls, k)
       /\ event' = EvFull("success", c.node, k, themes, IsDirect(k))
       /\ UNCHANGED <<mounted, selectedNode, isNodeSelected>>
       /\ UNCHANGED <<bookmarkVars, otherVars, now>>

\* handleNodeClick resumed after analyzeBook rejected: lines 215-221, 227-243
\* (variant: the catch block rethrows, so that only the finally block runs)
AnalyzeFailureRethrown(k) ==
    LET c == calls[k]
    IN /\ isAnalyzing' = FALSE
       /\ calls' = RemoveAt(calls, k)
       /\ event' = EvFull("failure", c.node, k, <<>>, IsDirect(k))
       /\ UNCHANGED <<mounted, books, stored, selectedNode, relatedNodeIds,
                      selectedBook, isNodeSelected, notifyTimers>>
       /\ UNCHANGED <<bookmarkVars, otherVars, now>>

AnalyzeFailure(k) ==
    LET c == calls[k]
    IN /\ selectedBook' = <<c.book>>
       /\ isAnalyzing' = FALSE
       /\ relatedNodeIds' = RelatedIds(c.books, c.node, c.book)
       /\ calls' = RemoveAt(calls, k)
       /\ event' = EvFull("failure", c.node, k, <<>>, IsDirect(k))
       /\ UNCHANGED <<mounted, books, stored, selectedNode, isNodeSelected,
                      notifyTimers>>
       /\ UNCHANGED <<bookmarkVars, otherVars, now>>

\* the Reset View button / window.__bookGraphReset
Reset ==
    /\ mounted
    /\ HandleReset
    /\ event' = Ev("reset", NoNode, 0)
    /\ UNCHANGED <<mounted, books, stored, isAnalyzing, calls, notifyTimers>>
    /\ UNCHANGED <<bookmarkVars, otherVars, now>>

\* QuotesPanel onClose, line 554
ClosePanel ==
    /\ selectedBook # <<>>
    /\ selectedBook' = <<>>
    /\ UNCHANGED <<mounted, books, stored, selectedNode, relatedNodeIds,
                   isAnalyzing, calls, isNodeSelected, notifyTimers, event>>
    /\ UNCHANGED <<bookmarkVars, otherVars, now>>

\* the timer of lines 272-276 fires; a change of isNodeSelected re-renders
\* GraphPage, which hands BookGraph a new onReset and re-runs the effect
NotifyFire ==
    /\ notifyTimers > 0
    /\ isNodeSelected' = TRUE
    /\ notifyTimers' = IF Scheduled(~isNodeSelected, selectedNode)
                       THEN notifyTimers ELSE notifyTimers - 1
    /\ UNCHANGED <<mounted, books, stored, selectedNode, relatedNodeIds,
                   selectedBook, isAnalyzing, calls, event>>
    /\ UNCHANGED <<bookmarkVars, otherVars, now>>

\* a checkbox of the sidebar is toggled: handleFilterChange and
\* setActiveFilters (part_000 line 295); BookGraph is rendered with the new
\* filteredBooks and its notify effect runs again
FilterChange(filterName) ==
    /\ mounted
    /\ activeFilters' = handleFilterChange(activeFilters, filterName,
                                           ~activeFilters[filterName])
    /\ Scheduled(TRUE, selectedNode) => notifyTimers < MaxTimers
    /\ notifyTimers' = IF Scheduled(TRUE, selectedNode)
                       THEN notifyTimers + 1 ELSE notifyTimers
    /\ UNCHANGED <<mounted, books, stored, selectedNode, relatedNodeIds,
                   selectedBook, isAnalyzing, calls, isNodeSelected, event>>
    /\ UNCHANGED <<bookmarkVars, pulse, csv, recency, paint, groq, upload,
                   now>>

\* GraphPage load effect, part_000 lines 41-59, with location.state.books
\* (variant: line 46 left out, the list is not saved)
LoadBooksUnsaved(list) ==
    /\ ~mounted
    /\ Len(list) > 0
    /\ mounted' = TRUE
    /\ books' = list
    /\ event' = Ev("load", NoNode, 0)
    /\ UNCHANGED <<selectedNode, relatedNodeIds, selectedBook, isAnalyzing,
                   calls, isNodeSelected, notifyTimers, stored>>
    /\ UNCHANGED <<bookmarkVars, otherVars, now>>

LoadBooks(list) ==
    /\ ~mounted
    /\ Len(list) > 0
    /\ mounted' = TRUE
    /\ books' = list
    /\ stored' = list
    /\ event' = Ev("load", NoNode, 0)
    /\ UNCHANGED <<selectedNode, relatedNodeIds, selectedBook, isAnalyzing,
                   calls, isNodeSelected, notifyTimers>>
    /\ UNCHANGED <<bookmarkVars, otherVars, now>>

----------------------------------------------------------------------------
(* Bookmarks: QuotesPanel (components/LoadingScreen.jsx) and BookmarksView *)

\* Text that goes into a bookmark key is a sequence of pieces, one of which
\* may be the three-bar separator itself; a template literal concatenates.
Sep == "|||"

\* `${a}|||${b}`
Joined(a, b) == a \o <<Sep>> \o b

\* `${book?.title || ''}|||${book?.author || ''}|||${quote}|||${theme}`
BookmarkKey(book, quote, theme) ==
    Joined(Joined(Joined(book.title, book.author), quote), theme)

\* `${bookmark.bookTitle}|||${bookmark.bookAuthor}`
BookKey(bookmark) == Joined(bookmark.bookTitle, bookmark.bookAuthor)

\* new Date().toISOString(); no handler reads dateAdded
Now == "iso"

\* the bookmark object of lines 187-194
Bookmark(book, quote, theme) ==
    [key |-> BookmarkKey(book, quote, theme),
     quote |-> quote,
     theme |-> theme,
     bookTitle |-> book.title,
     bookAuthor |-> book.author,
     dateAdded |-> Now]

\* a JavaScript Set holding parsed bookmark objects and key strings: has,
\* add and delete of a string only ever concern the strings
EmptySet == [objects |-> <<>>, keys |-> {}]

SetOfObjects(list) == [objects |-> list, keys |-> {}]

Has(set, key) == key \in set.keys

\* history record: the bookmark handler that ran last ("add" and "remove"
\* are the two branches of handleBookmarkClick), the (book, quote, theme)
\* it was given and the stored list it found
BookmarkEv(op, tuple, before) == [op |-> op, tuple |-> tuple, before |-> before]

\* bookmarks.filter(b => b.key !== bookmarkKey)
WithoutKey(list, bookmarkKey) ==
    SelectSeq(list, LAMBDA b : b.key # bookmarkKey)

\* QuotesPanel mounts (navigation to the graph page, or a reload of it):
\* the load effect of lines 160-170; BookmarksView is not mounted
PanelMount ==
    /\ page' = "graph"
    /\ bookmarkedQuotes' = SetOfObjects(storedBookmarks)
    /\ viewBookmarks' = <<>>
    /\ bookmarkEvent' = BookmarkEv("mount", <<>>, storedBookmarks)
    /\ UNCHANGED storedBookmarks
    /\ UNCHANGED <<graphVars, otherVars>>

\* handleBookmarkClick, lines 173-201, for the open book
handleBookmarkClick(book, quote, theme) ==
    LET bookmarkKey == BookmarkKey(book, quote, theme)
    IN /\ page = "graph"
       /\ IF Has(bookmarkedQuotes, bookmarkKey)
          THEN /\ storedBookmarks' = WithoutKey(storedBookmarks, bookmarkKey)
               /\ bookmarkedQuotes' =
                     [bookmarkedQuotes EXCEPT !.keys = @ \ {bookmarkKey}]
               /\ bookmarkEvent' = BookmarkEv("remove", <<book, quote, theme>>,
                                              storedBookmarks)
          ELSE /\ Len(storedBookmarks) < MaxBookmarks
               /\ storedBookmarks' =
                     Append(storedBookmarks, Bookmark(book, quote, theme))
               /\ bookmarkedQuotes' =
                     [bookmarkedQuotes EXCEPT !.keys = @ \cup {bookmarkKey}]
               /\ bookmarkEvent' = BookmarkEv("add", <<book, quote, theme>>,
                                              storedBookmarks)
       /\ UNCHANGED <<page, viewBookmarks>>
       /\ UNCHANGED <<graphVars, otherVars>>

\* BookmarksView mounts: loadBookmarks, lines 10-39; QuotesPanel unmounts
ViewMount ==
    /\ page' = "bookmarks"
    /\ viewBookmarks' = storedBookmarks
    /\ bookmarkedQuotes' = EmptySet
    /\ bookmarkEvent' = BookmarkEv("view", <<>>, storedBookmarks)
    /\ UNCHANGED storedBookmarks
    /\ UNCHANGED <<graphVars, otherVars>>

\* handleDeleteBookmark, lines 41-45, followed by loadBookmarks
handleDeleteBookmark(bookmarkKey) ==
    LET updatedBookmarks == WithoutKey(viewBookmarks, bookmarkKey)
    IN /\ page = "bookmarks"
       /\ storedBookmarks' = updatedBookmarks
       /\ viewBookmarks' = updatedBookmarks
       /\ bookmarkEvent' = BookmarkEv("delete", <<>>, storedBookmarks)
       /\ UNCHANGED <<page, bookmarkedQuotes>>
       /\ UNCHANGED <<graphVars, otherVars>>

\* handleDeleteAllFromBook, lines 47-53, followed by loadBookmarks
handleDeleteAllFromBook(bookKey) ==
    LET bookmarkKeys == {viewBookmarks[k].key : k \in
                            {m \in 1..Len(viewBookmarks) :
                                BookKey(viewBookmarks[m]) = bookKey}}
        updatedBookmarks ==
            SelectSeq(viewBookmarks, LAMBDA b : b.key \notin bookmarkKeys)
    IN /\ page = "bookmarks"
       /\ storedBookmarks' = updatedBookmarks
       /\ viewBookmarks' = updatedBookmarks
       /\ bookmarkEvent' = BookmarkEv("deleteAll", <<>>, storedBookmarks)
       /\ UNCHANGED <<page, bookmarkedQuotes>>
       /\ UNCHANGED <<graphVars, otherVars>>

----------------------------------------------------------------------------
(* Pulse animation: BookGraph.jsx lines 281-299 *)

\* no frame requested yet: animationFrameId undefined (0), lastTime 0,
\* pulsePhase 0 (in hundredths of a radian, 2 * pi taken as 628)
PulseIdle ==
    [view |-> "none", pending |-> {}, nextId |-> 1, animationFrameId |-> 0,
     lastTime |-> 0, currentTime |-> 0, pulsePhase |-> 0, frames |-> 0]

throttleMs == 16

\* milliseconds between two animation frames (120 Hz and 60 Hz displays)
FrameGaps == {8, 16}

\* BookGraph mounts: the effect requests the first frame (line 293)
PulseMount ==
    /\ pulse.view = "none"
    /\ pulse' = [pulse EXCEPT !.view = "mounted",
                              !.pending = {pulse.nextId},
                              !.animationFrameId = pulse.nextId,
                              !.nextId = @ + 1]
    /\ UNCHANGED <<graphVars, bookmarkVars, csv, recency, paint,
                   activeFilters, groq, upload>>

\* the browser runs the callback of a pending request: animate, lines
\* 286-292
animate(id, gap) ==
    LET currentTime == pulse.currentTime + gap
        due == currentTime - pulse.lastTime >= throttleMs
    IN /\ id \in pulse.pending
       /\ pulse.frames < MaxFrames
       /\ pulse' = [pulse EXCEPT
                       !.currentTime = currentTime,
                       !.pulsePhase = IF due THEN (@ + 2) % 628 ELSE @,
                       !.lastTime = IF due THEN currentTime ELSE @,
                       !.pending = (@ \ {id}) \cup {pulse.nextId},
                       !.animationFrameId = pulse.nextId,
                       !.nextId = @ + 1,
                       !.frames = @ + 1]
       /\ UNCHANGED <<graphVars, bookmarkVars, csv, recency, paint,
                   activeFilters, groq, upload>>

\* BookGraph unmounts: the cleanup of lines 294-298
\* (variant: the cleanup cancels the id of the first request)
PulseTeardownFirstId ==
    /\ pulse.view = "mounted"
    /\ pulse' = [pulse EXCEPT !.view = "torn", !.pending = @ \ {1}]
    /\ UNCHANGED <<graphVars, bookmarkVars, csv, recency, paint,
                   activeFilters, groq, upload>>

PulseTeardown ==
    /\ pulse.view = "mounted"
    /\ pulse' = [pulse EXCEPT
                    !.view = "torn",
                    !.pending = IF pulse.animationFrameId # 0
                                THEN @ \ {pulse.animationFrameId} ELSE @]
    /\ UNCHANGED <<graphVars, bookmarkVars, csv, recency, paint,
                   activeFilters, groq, upload>>

----------------------------------------------------------------------------
(* Node colour: BookGraph.jsx lines 81 and 316-335 *)

\* getNodeColor, lines 316-335 (ratingNum in tenths)
getNodeColor(rating) ==
    LET parsed == parseFloat(StripNonNumeric(rating))
        ratingNum == IF parsed = <<>> THEN 0 ELSE parsed[1]
    IN IF ratingNum >= 50 THEN "#FFD700"
       ELSE IF ratingNum >= 40 THEN "#4169E1"
       ELSE IF ratingNum >= 30 THEN "#32CD32"
       ELSE IF ratingNum >= 20 THEN "#FF8C00"
       ELSE IF ratingNum >= 10 THEN "#DC143C"
       ELSE "#696969"

\* a node of a book with this rating is drawn
PaintNode(rating) ==
    /\ paint' = [painted |-> TRUE, rating |-> rating,
                 color |-> getNodeColor(NodeRating(rating))]
    /\ UNCHANGED <<graphVars, bookmarkVars, pulse, csv, recency,
                   activeFilters, groq, upload>>

----------------------------------------------------------------------------
(* callGroqAPI: geminiAPI.js lines 12-128 *)

\* models 1 (PRIMARY_MODEL) and 2 (FALLBACK_MODEL); sent counts the
\* requests made to each, last is how the latest request to each ended
GroqIdle ==
    [pc |-> "idle", maxRetries |-> 0, model |-> 1, attempt |-> 0,
     lastError |-> <<>>, sent |-> <<0, 0>>, last |-> <<"none", "none">>,
     result |-> "none", value |-> ""]

\* how a request can end: fetch rejects; status 400 with a message that the
\* model is decommissioned, no longer supported or not found; another 4xx
\* whose error text holds no "5" and no "429"; a 4xx whose error text holds
\* a "5" (status 405, say); 429; 5xx; status 200 with a body that is not
\* JSON or has no choices[0].message; status 200 with a message
Outcomes ==
    {"network", "unavailable", "client", "client5", "rate", "server",
     "malformed", "ok"}

\* throw and return
Thrown(g, error) == [g EXCEPT !.pc = "done", !.result = "threw",
                              !.value = error]

\* (variant: an empty content is not returned but thrown)
ReturnedUnlessEmpty(g, content) ==
    IF content = "" THEN Thrown(g, "malformed")
    ELSE [g EXCEPT !.pc = "done", !.result = "returned", !.value = content]

\* return data.choices[0].message.content || '', line 90
Returned(g, content) ==
    [g EXCEPT !.pc = "done", !.result = "returned", !.value = content]

\* fetch, lines 27-43
Send(g) ==
    [g EXCEPT !.pc = "fetch", !.sent[g.model] = @ + 1]

RECURSIVE AfterLoop(_)
RECURSIVE StartLoop(_)

\* the for loop of line 25 is entered for g.model with a fresh lastError
StartLoop(g) ==
    IF 1 <= g.maxRetries THEN Send([g EXCEPT !.attempt = 1])
    ELSE AfterLoop(g)

\* the retry loop of g.model is left: lines 121-127
AfterLoop(g) ==
    IF g.lastError # <<>> /\ g.model = 2 THEN Thrown(g, g.lastError[1])
    ELSE IF g.model = 1
    THEN StartLoop([g EXCEPT !.model = 2, !.lastError = <<>>])
    ELSE Thrown(g, "failed")

\* the end of the catch block, lines 112-118 (and lines 72-77)
\* (variant: the retry is not limited by maxRetries)
RetryUnlimited(g) == [g EXCEPT !.pc = "backoff"]

Retry(g) ==
    IF g.attempt < g.maxRetries THEN [g EXCEPT !.pc = "backoff"]
    ELSE AfterLoop(g)

\* lines 45-118 for a request that ended with outcome
OnResponse(g, outcome, content) ==
    LET caught == [g EXCEPT !.lastError = <<outcome>>]
    IN IF outcome = "ok" THEN Returned(g, content)
       ELSE IF outcome = "unavailable"
       THEN IF g.model = 1 THEN AfterLoop(g)      \* break, line 59
            ELSE Retry(caught)                    \* thrown at line 61
       ELSE IF outcome = "client"
       THEN IF g.model = 1 THEN AfterLoop(caught) \* break, line 107
            ELSE Thrown(caught, outcome)          \* line 109
       ELSE Retry(caught)

\* callGroqAPI is called
GroqCall(hasKey, maxRetries) ==
    /\ groq.pc = "idle"
    /\ groq' = IF hasKey
               THEN StartLoop([groq EXCEPT !.maxRetries = maxRetries])
               ELSE Thrown([groq EXCEPT !.maxRetries = maxRetries], "nokey")
    /\ UNCHANGED <<graphVars, bookmarkVars, pulse, csv, recency, paint,
                   activeFilters, upload>>

\* the pending request settles
GroqResponse(outcome, content) ==
    /\ groq.pc = "fetch"
    /\ groq' = OnResponse([groq EXCEPT !.last[groq.model] = outcome],
                          outcome, content)
    /\ UNCHANGED <<graphVars, bookmarkVars, pulse, csv, recency, paint,
                   activeFilters, upload>>

\* the backoff timer of lines 74 and 115 fires: continue
GroqBackoffDone ==
    /\ groq.pc = "backoff"
    /\ groq' = Send([groq EXCEPT !.attempt = @ + 1])
    /\ UNCHANGED <<graphVars, bookmarkVars, pulse, csv, recency, paint,
                   activeFilters, upload>>

----------------------------------------------------------------------------
(* CSV ingest: UploadPage.jsx lines 17-126 *)

\* A string is a sequence of pieces, so that a Book Id cell can spell the
\* id the parser derives for another row.  A data line is given by its
\* cells after splitting, trimming and unquoting (lines 46-78); BlankLine
\* is a line that trims to the empty string.
BlankLine == [blank |-> TRUE]

DataLine(bookId, title, author, rating) ==
    [blank |-> FALSE, bookId |-> bookId, title |-> title, author |-> author,
     rating |-> rating]

\* `${i}` for the line numbers that occur
IndexText == <<"1", "2", "3", "4", "5", "6", "7", "8", "9">>

\* `${i}-${title}-${author}`, line 82
DerivedId(i, title, author) ==
    <<IndexText[i], "-">> \o title \o <<"-">> \o author

\* id: bookId || `${i}-${title}-${author}`, line 82
BookIdOf(i, line) ==
    IF line.bookId # <<>> THEN line.bookId
    ELSE DerivedId(i, line.title, line.author)

\* the loop of lines 42-91 over lines[1 ..]: lines[0] is the header, so
\* the k-th data line has i = k; blank lines and rows without title or
\* author are skipped but counted
RECURSIVE parseRows(_, _)
parseRows(lines, i) ==
    IF i > Len(lines) THEN <<>>
    ELSE LET line == lines[i]
             rest == parseRows(lines, i + 1)
         IN IF line.blank THEN rest
            ELSE IF line.title # <<>> /\ line.author # <<>>
                 THEN <<[id |-> BookIdOf(i, line), title |-> line.title,
                         author |-> line.author,
                         rating |-> line.rating]>> \o rest
                 ELSE rest

parseCSV(lines) == parseRows(lines, 1)

\* lines 116-119: books with parseFloat(rating) || 0 above 0 (the rating
\* cell holds a whole number of stars here)
filteredReadBooks(parsedBooks) ==
    SelectSeq(parsedBooks, LAMBDA book : book.rating > 0)

\* Bulk enrichment, lines 128-175.  upload is one run of processFile: pc
\* is where the run stands, readBooks is filteredReadBooks, i the loop
\* index (from 0), analyzedBooks the list built so far, state the
\* navigation state (<<>> before navigate, <<list>> after); failed is
\* history, the indices whose analysis ended in the catch of line 151.
UploadIdle ==
    [pc |-> "idle", readBooks |-> <<>>, i |-> 0, analyzedBooks |-> <<>>,
     failed |-> {}, isAnalyzing |-> FALSE, analysisProgress |-> 0,
     error |-> FALSE, state |-> <<>>]

\* how the await of analyzeBook, line 141, ends: it throws, it returns a
\* themes array, or it returns a themes array holding null, for which the
\* flatMap callback of line 146 throws
AnalysisThrown == [returned |-> FALSE, holed |-> FALSE, themes |-> <<>>]

AnalysisReturned(themes) ==
    [returned |-> TRUE, holed |-> FALSE, themes |-> themes]

AnalysisHoled == [returned |-> TRUE, holed |-> TRUE, themes |-> <<>>]

AnalysisFailed(outcome) == ~outcome.returned \/ outcome.holed

\* the record pushed for a book, lines 144-149 and 154-158
Enriched(book, outcome) ==
    [id |-> book.id, title |-> book.title, author |-> book.author,
     rating |-> book.rating,
     themes |-> IF AnalysisFailed(outcome) THEN <<>> ELSE outcome.themes,
     quotes |-> IF AnalysisFailed(outcome) THEN <<>>
                ELSE FlatQuotes(outcome.themes)]

\* Math.floor(((i + 1) / totalBooks) * 100), line 162
Progress(i, totalBooks) == ((i + 1) * 100) \div totalBooks

\* variant: a book whose analysis failed is left out of the list
AfterBookSkipFailed(u, outcome) ==
    LET book == u.readBooks[u.i + 1]
        pushed == [u EXCEPT
                     !.analyzedBooks =
                         IF AnalysisFailed(outcome) THEN @
                         ELSE Append(@, Enriched(book, outcome)),
                     !.failed = IF AnalysisFailed(outcome)
                                THEN @ \cup {u.i + 1} ELSE @,
                     !.analysisProgress = Progress(u.i, Len(u.readBooks))]
    IN IF u.i < Len(u.readBooks) - 1
       THEN [pushed EXCEPT !.pc = "delay"]
       ELSE [pushed EXCEPT !.pc = "navigating", !.analysisProgress = 100,
                           !.isAnalyzing = FALSE]

\* the loop body from the end of the await to the next await, lines
\* 141-167, and for the last book the statements after the loop, 171-177
AfterBook(u, outcome) ==
    LET book == u.readBooks[u.i + 1]
        pushed == [u EXCEPT
                     !.analyzedBooks = Append(@, Enriched(book, outcome)),
                     !.failed = IF AnalysisFailed(outcome)
                                THEN @ \cup {u.i + 1} ELSE @,
                     !.analysisProgress = Progress(u.i, Len(u.readBooks))]
    IN IF u.i < Len(u.readBooks) - 1
       THEN [pushed EXCEPT !.pc = "delay"]
       ELSE [pushed EXCEPT !.pc = "navigating", !.analysisProgress = 100,
                           !.isAnalyzing = FALSE]

\* processFile from the parse to the first await of analyzeBook, lines
\* 108-141; without rated books it throws to the catch of line 179
Ingest(lines) ==
    /\ csv' = [lines |-> lines, parsedBooks |-> parseCSV(lines),
               readBooks |-> filteredReadBooks(parseCSV(lines))]
    /\ upload' =
          IF filteredReadBooks(parseCSV(lines)) = <<>>
          THEN [UploadIdle EXCEPT !.pc = "error", !.error = TRUE]
          ELSE [UploadIdle EXCEPT
                  !.pc = "analyzing",
                  !.readBooks = filteredReadBooks(parseCSV(lines)),
                  !.isAnalyzing = TRUE]
    /\ UNCHANGED <<graphVars, bookmarkVars, pulse, recency, paint,
                   activeFilters, groq>>

\* the await of analyzeBook ends, lines 141-177
AnalysisSettled(outcome) ==
    /\ upload.pc = "analyzing"
    /\ upload' = AfterBook(upload, outcome)
    /\ UNCHANGED <<graphVars, bookmarkVars, pulse, csv, recency, paint,
                   activeFilters, groq>>

\* the 500 ms delay of line 166 ends: the next iteration, up to its await
DelayDone ==
    /\ upload.pc = "delay"
    /\ upload' = [upload EXCEPT !.pc = "analyzing", !.i = @ + 1]
    /\ UNCHANGED <<graphVars, bookmarkVars, pulse, csv, recency, paint,
                   activeFilters, groq>>

\* the timer of lines 175-177 fires: navigate('/graph', {state: {books}})
Navigate ==
    /\ upload.pc = "navigating"
    /\ upload' = [upload EXCEPT !.pc = "navigated",
                                !.state = <<upload.analyzedBooks>>]
    /\ UNCHANGED <<graphVars, bookmarkVars, pulse, csv, recency, paint,
                   activeFilters, groq>>

----------------------------------------------------------------------------
(* Specifications *)

SessionIds == <<"a", "b", "c">>
SessionTitles == <<"t1", "t2", "t3">>

\* the lists a session starts from: books a and b not yet enriched or with
\* theme Y, book c enriched at upload with theme X
SessionLists ==
    {[k \in 1..3 |-> Book(SessionIds[k], SessionTitles[k], "au", th[k])] :
        th \in {t \in [1..3 -> ThemeLists(1)] :
                    /\ t[1] \in {<<>>, <<Theme("Y")>>}
                    /\ t[2] \in {<<>>, <<Theme("Y")>>}
                    /\ t[3] = <<Theme("X")>>}}

Init ==
    /\ mounted = FALSE
    /\ books = <<>>
    /\ stored = <<>>
    /\ selectedNode = NoNode
    /\ relatedNodeIds = {}
    /\ selectedBook = <<>>
    /\ isAnalyzing = FALSE
    /\ calls = <<>>
    /\ isNodeSelected = FALSE
    /\ notifyTimers = 0
    /\ event = Ev("init", NoNode, 0)
    /\ page = "none"
    /\ storedBookmarks = <<>>
    /\ bookmarkedQuotes = EmptySet
    /\ viewBookmarks = <<>>
    /\ bookmarkEvent = BookmarkEv("init", <<>>, <<>>)
    /\ now = 0
    /\ pulse = PulseIdle
    /\ csv = [lines |-> <<>>, parsedBooks |-> <<>>, readBooks |-> <<>>]
    /\ recency = [built |-> FALSE]
    /\ paint = [painted |-> FALSE]
    /\ activeFilters = AllBooks
    /\ groq = GroqIdle
    /\ upload = UploadIdle

Load == ~mounted /\ \E list \in SessionLists : LoadBooks(list)
Click == \E nodeId \in ClickableIds : NodeClick(nodeId)
Success == \E k \in 1..Len(calls), themes \in AnalysisResults :
               AnalyzeSuccess(k, themes)
Failure == \E k \in 1..Len(calls) : AnalyzeFailure(k)

Next ==
    \/ Load
    \/ Click
    \/ Success
    \/ Failure
    \/ Reset
    \/ ClosePanel
    \/ NotifyFire

Spec == Init /\ [][Next]_vars

\* the selection machine with every pending analyzeBook promise settling:
\* a call in flight is eventually resumed, by its success or by its failure
SpecLive == Spec /\ WF_vars(Success \/ Failure)

\* graph-build inputs: up to BuildBooks books, each without id or with id
\* a or b (repeats allowed), theme lists of up to two entries (in either
\* order, repeats allowed)
BuildTitles == <<"t1", "t2", "t3", "t4", "t5", "t6", "t7", "t8">>

LoadBuild ==
    /\ ~mounted
    /\ \E n \in 1..BuildBooks :
        \E ids \in [1..n -> {NoId, "a", "b"}],
           th \in [1..n -> ThemeLists(2)] :
            LoadBooks([k \in 1..n |->
                          Book(ids[k], BuildTitles[k], "au", th[k])])

SpecBuild == Init /\ [][LoadBuild]_vars

\* graph-build inputs with ids: up to BuildBooks books, each with an id of
\* its own, theme lists of up to two entries
LoadEdges ==
    /\ ~mounted
    /\ \E n \in 1..BuildBooks :
        \E th \in [1..n -> ThemeLists(2)] :
            LoadBooks([k \in 1..n |->
                          Book(BuildTitles[k], BuildTitles[k], "au", th[k])])

SpecEdges == Init /\ [][LoadEdges]_vars

\* wide graph-build inputs: up to WideBooks books, each without id or with
\* an id of its own, at most one theme each
LoadWide ==
    /\ ~mounted
    /\ \E n \in 1..WideBooks :
        \E hasId \in [1..n -> BOOLEAN], th \in [1..n -> ThemeLists(1)] :
            LoadBooks([k \in 1..n |->
                          Book(IF hasId[k] THEN BuildTitles[k] ELSE NoId,
                               BuildTitles[k], "au", th[k])])

SpecWide == Init /\ [][LoadWide]_vars

\* merge inputs: up to MergeBooks books, each without id or with an id of
\* its own, titles that may repeat (one author), not yet enriched or
\* enriched with theme Y; the user clicks one node of the fresh page
MergeIds == <<"a", "b", "c", "d", "e", "f", "g", "h">>
MergeTitles == <<"t1", "t2">>

LoadMerge ==
    /\ ~mounted
    /\ \E n \in 1..MergeBooks :
        \E hasId \in [1..n -> BOOLEAN],
           ti \in [1..n -> 1..Len(MergeTitles)],
           th \in [1..n -> {<<>>, <<Theme("Y")>>}] :
            LoadBooks([k \in 1..n |->
                          Book(IF hasId[k] THEN MergeIds[k] ELSE NoId,
                               MergeTitles[ti[k]], "au", th[k])])

FirstClick == selectedNode = NoNode /\ calls = <<>> /\ Click

SpecMerge ==
    Init /\ [][LoadMerge \/ FirstClick \/ Success \/ NotifyFire]_vars

\* bookmark inputs: three books, two of them with the separator inside
\* the title or the author, and the quotes and theme the panel shows for
\* them
PanelBooks ==
    {[title |-> <<"t">>, author |-> <<"u", Sep, "v">>],
     [title |-> <<"t", Sep, "u">>, author |-> <<"v">>],
     [title |-> <<"w">>, author |-> <<"v">>]}

PanelQuotes == {<<"q">>}

PanelThemes == {<<"X">>}

PanelTuples == PanelBooks \X PanelQuotes \X PanelThemes

Toggle ==
    \E t \in PanelTuples : handleBookmarkClick(t[1], t[2], t[3])

DeleteOne ==
    \E k \in 1..Len(viewBookmarks) :
        handleDeleteBookmark(viewBookmarks[k].key)

DeleteBook ==
    \E k \in 1..Len(viewBookmarks) :
        handleDeleteAllFromBook(BookKey(viewBookmarks[k]))

NextBookmarks ==
    \/ PanelMount
    \/ Toggle
    \/ ViewMount
    \/ DeleteOne
    \/ DeleteBook

SpecBookmarks == Init /\ [][NextBookmarks]_vars

\* time passes between two builds of the graph (new Date(), line 65)
Tick ==
    /\ now < MaxNow
    /\ now' = now + 1
    /\ UNCHANGED <<mounted, books, stored, selectedNode, relatedNodeIds,
                   selectedBook, isAnalyzing, calls, isNodeSelected,
                   notifyTimers, event>>
    /\ UNCHANGED <<bookmarkVars, otherVars>>

\* dated inputs: books a and b with theme X or none, each without a date
\* or read 29 days ago, today or (by the file) tomorrow; the user clicks a
\* node and resets while the days pass
ReadDates == {NoDate, <<0 - 29>>, <<0>>, <<1>>}

LoadClock ==
    /\ ~mounted
    /\ \E dr \in [1..2 -> ReadDates], th \in [1..2 -> {<<>>, <<Theme("X")>>}] :
          LoadBooks([k \in 1..2 |->
                        ReadOn(Book(SessionIds[k], SessionTitles[k], "au",
                                    th[k]), dr[k])])

SpecClock == Init /\ [][LoadClock \/ Tick \/ FirstClick \/ Reset]_vars

Frame == \E id \in pulse.pending, gap \in FrameGaps : animate(id, gap)

SpecPulse == Init /\ [][PulseMount \/ Frame \/ PulseTeardown]_vars

\* cells of the uploaded files
CellIds == {<<>>, <<"7">>, <<"2", "-", "t", "-", "u">>}
CellTitles == {<<>>, <<"t">>}
CellAuthors == {<<"u">>}
CellRatings == {0, 4}

FileLines ==
    {BlankLine} \cup
    {DataLine(b, t, a, r) : b \in CellIds, t \in CellTitles,
                            a \in CellAuthors, r \in CellRatings}

Upload ==
    \E n \in 1 .. MaxRows : \E lines \in [1 .. n -> FileLines] : Ingest(lines)

SpecIngest == Init /\ [][Upload]_vars

MaxUploadRows == 3

\* files of up to MaxUploadRows data lines, rated or not, and the ways
\* each analysis can end
UploadLines ==
    {DataLine(b, <<"t">>, <<"u">>, r) : b \in {<<>>, <<"7">>},
                                       r \in CellRatings}

AnalysisOutcomes ==
    {AnalysisThrown, AnalysisHoled, AnalysisReturned(<<>>),
     AnalysisReturned(<<Theme("X")>>)}

StartUpload ==
    /\ upload.pc \in {"idle", "error"}
    /\ \E n \in 1 .. MaxUploadRows :
          \E lines \in [1 .. n -> UploadLines] : Ingest(lines)

Analysed == \E outcome \in AnalysisOutcomes : AnalysisSettled(outcome)

SpecUpload ==
    Init /\ [][StartUpload \/ Analysed \/ DelayDone \/ Navigate]_vars

\* the viewer's calendar day
Today(utcNow, tz) == (utcNow + tz) \div 24

\* viewers in three time zones at several hours of day 40 (UTC), and
\* books read, by the viewer's calendar, 31 or 30 days ago, today or
\* tomorrow
ViewerZones == {0 - 8, 0, 10}
ViewerHours == {24 * 40 + h : h \in {0, 3, 12, 21, 23}}
ReadDaysAgo == {31, 30, 0, 0 - 1}

Build ==
    \E utcNow \in ViewerHours, tz \in ViewerZones :
       \E text \in {NoText, Unparseable} \cup
                   {DateText(f, Today(utcNow, tz) - ago) :
                       f \in {"iso", "slash"}, ago \in ReadDaysAgo} :
          BuildAt(text, utcNow, tz)

SpecRecent == Init /\ [][Build]_vars

\* ratings: no rating, "3 stars", and every text of up to MaxRatingLen of
\* these characters
RatingChars == {"-", ".", "0", "3", "5", "s"}
ThreeStars == <<"3", " ", "s", "t", "a", "r", "s">>

Draw ==
    \/ \E rating \in {<<>>, ThreeStars} : PaintNode(rating)
    \/ \E n \in 1 .. MaxRatingLen :
          \E rating \in [1 .. n -> RatingChars] : PaintNode(rating)

SpecColor == Init /\ [][Draw]_vars

\* sessions under filters: books a and b with five or three stars, on the
\* shelf non-fiction or on none, enriched with theme X or not yet
FilterRatings == {<<"5">>, <<"3">>}
FilterShelves == {{}, {"non-fiction"}}

LoadFilter ==
    /\ ~mounted
    /\ \E ra \in [1..2 -> FilterRatings], sh \in [1..2 -> FilterShelves],
          th \in [1..2 -> {<<>>, <<Theme("X")>>}] :
          LoadBooks([k \in 1..2 |->
                        Shelved(Rated(Book(SessionIds[k], SessionTitles[k],
                                           "au", th[k]), ra[k]), sh[k])])

Filter == \E filterName \in FilterNames : FilterChange(filterName)

SpecFilter ==
    Init /\ [][LoadFilter \/ Filter \/ FirstClick \/ Success
                \/ NotifyFire]_vars

\* whole sessions: book a with five stars and book b with five or three,
\* each enriched with theme X or not yet; clicks, completions in any order,
\* resets and filter changes
LoadSession ==
    /\ ~mounted
    /\ \E rb \in FilterRatings, th \in [1..2 -> {<<>>, <<Theme("X")>>}] :
          LoadBooks([k \in 1..2 |->
                        Rated(Book(SessionIds[k], SessionTitles[k], "au",
                                   th[k]), IF k = 1 THEN <<"5">> ELSE rb)])

\* the All Books and Top Rated checkboxes
FilterByRating ==
    \E filterName \in {"all", "topRated"} : FilterChange(filterName)

SpecSession ==
    Init /\ [][LoadSession \/ FilterByRating \/ Click \/ Success \/ Failure
                \/ Reset \/ NotifyFire]_vars

\* enrichment with whatever the remote model returns
SuccessAnyReply ==
    \E k \in 1 .. Len(calls), t \in 0 .. MaxReplyThemes,
       q \in 0 .. MaxReplyQuotes : AnalyzeSuccess(k, Reply(t, q))

SpecEnrich ==
    Init /\ [][Load \/ FirstClick \/ SuccessAnyReply \/ NotifyFire]_vars

\* calls of callGroqAPI with and without an API key, with maxRetries up to
\* MaxRetries, and every way each request can end
Contents == {"", "{json}"}

Call ==
    \E hasKey \in BOOLEAN, maxRetries \in 0 .. MaxRetries :
        GroqCall(hasKey, maxRetries)

Response ==
    \E outcome \in Outcomes, content \in Contents :
        /\ outcome # "ok" => content = ""
        /\ GroqResponse(outcome, content)

\* every request settles and every backoff timer fires
SpecGroq ==
    /\ Init
    /\ [][Call \/ Response \/ GroqBackoffDone]_vars
    /\ WF_vars(Response)
    /\ WF_vars(GroqBackoffDone)

----------------------------------------------------------------------------
(* Properties *)

\* the set of theme names of a book
NameSet(book) == {book.themes[k].theme : k \in 1..Len(book.themes)}

\* the step resumes call k: analyzeBook resolved or rejected
CompletionStep(k) ==
    AnalyzeFailure(k) \/ \E th \in AnalysisResults : AnalyzeSuccess(k, th)

\* the pairs of list positions (1-based) an edge of g connects
EndsOf(g, e) ==
    {p \in (1..Len(g.nodes)) \X (1..Len(g.nodes)) :
        g.nodes[p[1]].id = g.links[e].source
        /\ g.nodes[p[2]].id = g.links[e].target}

\* C1: when the enrichment call of a node other than the selected one
\* resolves (success or failure), selectedNode and relatedNodeIds keep the
\* values of the newer selection.
C1_StaleCompletionKeepsSelection ==
    [][\A k \in 1..Len(calls) :
        (/\ CompletionStep(k)
         /\ selectedNode # NoNode
         /\ calls[k].node # selectedNode)
        => (selectedNode' = selectedNode /\ relatedNodeIds' = relatedNodeIds)]_vars

\* C2: whenever a node is selected, it is a member of relatedNodeIds.
C2_SelectedIsRelated ==
    selectedNode # NoNode => selectedNode \in relatedNodeIds

\* C3: a successful enrichment merge for node N leaves N carrying the
\* returned themes and every other record of the book list and of the
\* persisted copy as it was, so that overlapping enrichments of two books
\* end with both books enriched whatever the completion order.
C3_MergesDoNotUndoEachOther ==
    [][\A c \in 1..Len(calls), th \in AnalysisResults :
        AnalyzeSuccess(c, th)
        => /\ Len(books') = Len(books)
           /\ stored' = books'
           /\ \A k \in 1..Len(books) :
                 IF NodeIdOf(books[k], k - 1) = calls[c].node
                 THEN books'[k].themes = th
                 ELSE books'[k] = books[k]]_vars

\* C4: every edge connects two nodes whose books share a theme name, also
\* in lists with records that lack an id.
C4_EdgesShareTheme ==
    LET g == Graph
    IN \A e \in 1..Len(g.links) : \A p \in EndsOf(g, e) :
          NameSet(books[p[1]]) \cap NameSet(books[p[2]]) # {}

NodeIdsDistinct(g) ==
    \A i, j \in 1..Len(g.nodes) : i # j => g.nodes[i].id # g.nodes[j].id

\* C5: when the node ids of a list are pairwise distinct (in particular when
\* all records have pairwise distinct ids), the edge list has no edge from a
\* node to itself, at most one edge per unordered pair of node ids, and
\* only endpoints that are ids of nodes of the same build.
C5_SimpleGraph ==
    LET g == Graph
    IN NodeIdsDistinct(g) =>
        /\ \A e \in 1..Len(g.links) :
              /\ g.links[e].source # g.links[e].target
              /\ EndsOf(g, e) # {}
        /\ \A e, f \in 1..Len(g.links) :
              e # f => {g.links[e].source, g.links[e].target}
                       # {g.links[f].source, g.links[f].target}

C5_Witness ==
    LET g == Graph
    IN /\ NodeIdsDistinct(g)
       /\ Len(g.links) >= 3
       /\ \E k \in 1..Len(books) : books[k].id = NoId
       /\ \E k \in 1..Len(books) : books[k].id # NoId

\* similarityScore(A, B) of the specification: number of shared theme names
Score(i, j) == Cardinality(NameSet(books[i]) \cap NameSet(books[j]))

\* j is among the k highest-ranked partners of i: fewer than k other books
\* rank before j (higher score, or equal score and earlier in the list)
InTopK(i, j, k) ==
    Cardinality({m \in 1..Len(books) :
                    /\ m # i /\ m # j
                    /\ \/ Score(i, m) > Score(i, j)
                       \/ (Score(i, m) = Score(i, j) /\ m < j)}) < k

Initiated(g, i) ==
    Cardinality({e \in 1..Len(g.links) : g.links[e].source = g.nodes[i].id})

ExpectedRelated(bs, n, th) ==
    {n} \cup {NodeIdOf(bs[k], k - 1) : k \in
                {m \in 1..Len(bs) :
                    /\ NodeIdOf(bs[m], m - 1) # n
                    /\ NameSet(bs[m]) \cap {th[x].theme : x \in 1..Len(th)} # {}}}

ThemesIn(bs, n) ==
    LET k == CHOOSE m \in 1..Len(bs) : NodeIdOf(bs[m], m - 1) = n
    IN bs[k].themes

\* C7: a click on node N whose handler finishes with no other click, reset
\* or completion in between leaves relatedNodeIds = {N} united with the ids
\* of exactly the books sharing a theme name with N, over N's own themes
\* when N was already enriched, over the just-returned themes when this
\* click enriched N, over no themes when the call failed.
C7_RelatedSetOfClick ==
    [][/\ \A n \in ClickableIds :
             (NodeClick(n) /\ n # selectedNode /\ calls' = calls)
             => relatedNodeIds' = ExpectedRelated(books', n, ThemesIn(books', n))
       /\ \A k \in 1..Len(calls) :
             /\ \A th \in AnalysisResults :
                   (IsDirect(k) /\ AnalyzeSuccess(k, th))
                   => relatedNodeIds' =
                         ExpectedRelated(books', calls[k].node, th)
             /\ (IsDirect(k) /\ AnalyzeFailure(k))
                => relatedNodeIds' =
                      ExpectedRelated(books', calls[k].node, <<>>)]_vars

C7_Witness ==
    /\ event.op = "success"
    /\ event.direct
    /\ selectedNode = event.node
    /\ Cardinality(relatedNodeIds) = 2

\* C8: when the enrichment call of a clicked unenriched node N fails, the
\* handler still completes the selection: relatedNodeIds = {N}, the open
\* book is N's unenriched record, selectedNode is left as it is (N when
\* nothing intervened), and the book list and the persisted list are
\* unchanged.
C8_FailureStillSelects ==
    [][\A k \in 1..Len(calls) :
        AnalyzeFailure(k)
        => /\ relatedNodeIds' = {calls[k].node}
           /\ selectedNode' = selectedNode
           /\ (IsDirect(k) => selectedNode' = calls[k].node)
           /\ selectedBook' = <<calls[k].book>>
           /\ calls[k].book.themes = <<>>
           /\ books' = books
           /\ stored' = stored]_vars

C8_Witness ==
    /\ event.op = "failure"
    /\ event.direct
    /\ selectedNode = event.node
    /\ relatedNodeIds = {event.node}
    /\ \E k \in 1..Len(books) : books[k].themes # <<>>

AllOpaqueAndVisible(g) ==
    /\ {g.nodes[i].opacity : i \in 1..Len(g.nodes)} \subseteq {10}
    /\ {g.links[e].isVisible : e \in 1..Len(g.links)} \subseteq {TRUE}

\* C9: Reset, from any state, leaves selectedNode null and relatedNodeIds
\* empty in one step, and the graph rebuilt from the resulting state has
\* opacity 1 on every node and every edge visible.
C9_ResetRestoresIdle ==
    [][Reset
       => /\ selectedNode' = NoNode
          /\ relatedNodeIds' = {}
          /\ AllOpaqueAndVisible(graphData(books', selectedNode',
                                           relatedNodeIds'))]_vars

C9_Witness ==
    /\ event.op = "reset"
    /\ Len(calls) > 0
    /\ relatedNodeIds = {}
    /\ Len(Graph.links) > 0

\* the effect of Reset: selection, related set and open book cleared, the
\* parent told, nothing else touched
Cleared ==
    /\ selectedNode' = NoNode
    /\ relatedNodeIds' = {}
    /\ selectedBook' = <<>>
    /\ isNodeSelected' = FALSE
    /\ UNCHANGED <<mounted, books, stored, isAnalyzing, calls, notifyTimers>>
    /\ UNCHANGED <<bookmarkVars, otherVars, now>>

\* C10: a click on the selected node clears the selection, the related set
\* and the open book, tells the parent (isNodeSelected false), starts no
\* enrichment call and changes nothing else: the state Reset produces.
C10_ReclickIsReset ==
    [][/\ \A n \in ClickableIds :
             (n = selectedNode /\ NodeClick(n)) => Cleared
       /\ Reset => Cleared]_vars

C10_Witness ==
    /\ event.op = "reclick"
    /\ \E k \in 1..Len(calls) : calls[k].node = event.node
    /\ isAnalyzing
    /\ selectedNode = NoNode

\* C11: while a node is selected, every node of the rebuilt graph has
\* isRelated equal to membership of its id in relatedNodeIds and opacity 1
\* if it is related or selected and 0.2 otherwise, and every edge is visible
\* exactly when both of its endpoints are in relatedNodeIds.
C11_DimmingWhileSelected ==
    LET g == Graph
    IN selectedNode # NoNode =>
        /\ \A i \in 1..Len(g.nodes) :
              /\ g.nodes[i].isRelated = (g.nodes[i].id \in relatedNodeIds)
              /\ g.nodes[i].opacity =
                    IF g.nodes[i].id \in relatedNodeIds
                       \/ g.nodes[i].id = selectedNode
                    THEN 10 ELSE 2
        /\ \A e \in 1..Len(g.links) :
              g.links[e].isVisible = (/\ g.links[e].source \in relatedNodeIds
                                      /\ g.links[e].target \in relatedNodeIds)

\* a selection that dims a node and hides an edge
C11_Witness ==
    LET g == Graph
    IN /\ selectedNode # NoNode
       /\ selectedNode \in relatedNodeIds
       /\ \E i \in 1..Len(g.nodes) : g.nodes[i].opacity = 2
       /\ \E e \in 1..Len(g.links) : ~g.links[e].isVisible

\* C12: whenever no node is selected, every node of the rebuilt graph has
\* opacity 1 and every edge is visible, whatever relatedNodeIds holds.
C12_NoDimmingWhenIdle ==
    LET g == Graph
    IN selectedNode = NoNode =>
        /\ \A i \in 1..Len(g.nodes) : g.nodes[i].opacity = 10
        /\ \A e \in 1..Len(g.links) : g.links[e].isVisible

\* nothing selected while relatedNodeIds still names some but not all nodes
\* (left behind by a call that completed after a reset)
C12_Witness ==
    LET g == Graph
    IN /\ selectedNode = NoNode
       /\ relatedNodeIds # {}
       /\ \E i \in 1..Len(g.nodes) : g.nodes[i].id \notin relatedNodeIds
       /\ \E e \in 1..Len(g.links) :
             g.links[e].source \notin relatedNodeIds

SessionNodeIds == {SessionIds[k] : k \in 1..Len(SessionIds)}

\* the state Selected of the selection machine for node n
Selected(n) ==
    /\ selectedNode = n
    /\ n \in relatedNodeIds
    /\ ~isAnalyzing

\* C13: after a click on a node N that is not the selected node, when the
\* pending enrichment calls resolve, the machine eventually reaches
\* Selected (selectedNode = N, N in relatedNodeIds, no enrichment marked in
\* flight) unless a further click or reset has changed the selection.
C13_ClickReachesSelected ==
    \A n \in SessionNodeIds :
        (event.op = "click" /\ event.node = n)
            ~> (Selected(n) \/ selectedNode # n)

\* node n of the list has no themes yet: a click on it starts a call
Unenriched(n) ==
    /\ ClickBook(books, n) # 0
    /\ books[ClickBook(books, n)].themes = <<>>

\* the model can take one more click that selects a node and starts a call
RoomForClick == notifyTimers < MaxTimers /\ Len(calls) < MaxCalls

\* in the graph rebuilt after the step, node n is drawn selected and opaque
DrawnSelected(n) ==
    LET g == graphData(books', selectedNode', relatedNodeIds')
    IN /\ \E i \in 1..Len(g.nodes) : g.nodes[i].id = n
       /\ \A i \in 1..Len(g.nodes) :
             g.nodes[i].id = n
             => (g.nodes[i].isSelected /\ g.nodes[i].opacity = 10)

\* C14: a click on an unenriched node N that is not the selected node sets
\* selectedNode = N and has N drawn selected with opacity 1 in the very
\* step of the click, with the enrichment call still in flight; and while
\* a call is in flight, clicks and Reset are accepted (enabled, as far as
\* the bounds on timers and calls leave room) and take effect.
C14_OptimisticSelection ==
    /\ [](calls # <<>> =>
            /\ ENABLED Reset
            /\ \A m \in ClickableIds :
                  (IsReclick(m) \/ RoomForClick) => ENABLED NodeClick(m))
    /\ [][/\ \A n \in ClickableIds :
               (n # selectedNode /\ Unenriched(n) /\ NodeClick(n))
               => /\ selectedNode' = n
                  /\ DrawnSelected(n)
                  /\ isAnalyzing'
                  /\ Len(calls') = Len(calls) + 1
                  /\ calls'[Len(calls')].node = n
          /\ calls # <<>> =>
               /\ Reset => (selectedNode' = NoNode /\ relatedNodeIds' = {})
               /\ \A m \in ClickableIds :
                     NodeClick(m)
                     => selectedNode' = IF m = selectedNode THEN NoNode
                                        ELSE m]_vars

\* a click on an unenriched node taken while another node's call is in
\* flight: two calls pending, the node clicked last selected
C14_Witness ==
    /\ event.op = "click"
    /\ event.call = 2
    /\ Len(calls) = 2
    /\ calls[1].node # event.node
    /\ selectedNode = event.node
    /\ selectedNode \notin relatedNodeIds
    /\ isAnalyzing

\* the positions of bs whose record differs from the one of cs
ChangedRecords(bs, cs) == {k \in 1..Len(bs) : cs[k] # bs[k]}

\* the record the merge for book x is meant for: the records with x's id
\* when x has one and some record carries it, else those with x's title
\* and author
MergeTargets(bs, x) ==
    LET byId == {k \in 1..Len(bs) : x.id # NoId /\ bs[k].id = x.id}
        byTitleAuthor == {k \in 1..Len(bs) :
                             bs[k].title = x.title /\ bs[k].author = x.author}
    IN IF byId # {} THEN byId ELSE byTitleAuthor

\* C15: a successful enrichment merge for book X changes the themes and
\* quotes of exactly one record, the one with X's id when there is an id
\* match and the one with X's title and author only otherwise; every other
\* record, also one with the same title and author but a different id, is
\* left unchanged.
C15_MergeChangesOneRecord ==
    [][\A c \in 1..Len(calls), th \in AnalysisResults :
        AnalyzeSuccess(c, th)
        => LET changed == ChangedRecords(books, books')
           IN /\ Len(books') = Len(books)
              /\ Cardinality(changed) = 1
              /\ changed \subseteq MergeTargets(books, calls[c].book)]_vars

KeysDistinct(list) ==
    \A i, j \in 1..Len(list) : i # j => list[i].key # list[j].key

KeyStored(list, bookmarkKey) ==
    \E k \in 1..Len(list) : list[k].key = bookmarkKey

\* C16: through any sequence of bookmark toggles, panel mounts (reloads)
\* and deletions in the bookmarks page, the stored bookmark list never
\* holds two entries with the same key, and a toggle on a quote whose key
\* is already stored removes it instead of adding a second entry.
C16_BookmarkKeysUnique ==
    /\ []KeysDistinct(storedBookmarks)
    /\ [][\A t \in PanelTuples :
            (/\ KeyStored(storedBookmarks, BookmarkKey(t[1], t[2], t[3]))
             /\ handleBookmarkClick(t[1], t[2], t[3]))
            => storedBookmarks' =
                  WithoutKey(storedBookmarks, BookmarkKey(t[1], t[2], t[3]))]_vars

\* the list holds an entry for the (book, quote, theme) tuple t
TupleStored(list, t) ==
    \E k \in 1..Len(list) :
        /\ list[k].bookTitle = t[1].title
        /\ list[k].bookAuthor = t[1].author
        /\ list[k].quote = t[2]
        /\ list[k].theme = t[3]

\* C17: toggling a bookmark on for a (title, author, quote, theme) tuple
\* that is not stored and then toggling the same tuple again leaves the
\* stored list equal to the list before the first toggle.
C17_ToggleTwiceRestores ==
    [][\A t \in PanelTuples :
        (/\ bookmarkEvent.op = "add"
         /\ bookmarkEvent.tuple = t
         /\ ~TupleStored(bookmarkEvent.before, t)
         /\ handleBookmarkClick(t[1], t[2], t[3]))
        => storedBookmarks' = bookmarkEvent.before]_vars

\* the first theme name of book i (list order) that book j also names,
\* "" when they share none
FirstShared(i, j) ==
    LET names == ThemeNamesOf(books[i])
        m == FirstOf({k \in 1..Len(names) : names[k] \in NameSet(books[j])})
    IN IF m = 0 THEN "" ELSE names[m]

\* C18: for every pair of books with an edge, the edge's theme label is
\* the first theme of the lower-indexed book that also occurs in the other
\* book, and its weight is 0.7 + 0.1 x (number of distinct theme names the
\* two books share), also when a theme list names a theme more than once.
C18_EdgeLabelAndWeight ==
    LET g == Graph
    IN \A e \in 1..Len(g.links) : \A p \in EndsOf(g, e) :
          p[1] < p[2] =>
             /\ FirstShared(p[1], p[2]) # ""
             /\ g.links[e].theme = FirstShared(p[1], p[2])
             /\ g.links[e].strength = 7 + Score(p[1], p[2])

\* the step leaves the inputs of the build as they are
SameBuildInputs ==
    /\ books' = books
    /\ selectedNode' = selectedNode
    /\ relatedNodeIds' = relatedNodeIds

\* the edges of g as (source, target, theme label) triples
EdgeSet(g) ==
    {<<g.links[e].source, g.links[e].target, g.links[e].theme>> :
        e \in 1..Len(g.links)}

\* C19 (as stated): two builds from the same book list and the same
\* selection state yield the same node list and the same set of edges
\* (endpoints and theme labels): the build is a function of (books,
\* selection).
C19_BuildFunctionOfInputs ==
    [][SameBuildInputs
       => (Graph'.nodes = Graph.nodes /\ EdgeSet(Graph') = EdgeSet(Graph))]_vars

\* C19 (amended): two builds from the same book list and the same
\* selection state yield the same edge list and the same node list up to
\* isRecent, which also depends on the day of the build.
C19_BuildFunctionUpToRecent ==
    [][SameBuildInputs
       => LET g == Graph
              h == Graph'
          IN /\ h.links = g.links
             /\ Len(h.nodes) = Len(g.nodes)
             /\ \A i \in 1..Len(g.nodes) :
                   [h.nodes[i] EXCEPT !.isRecent = g.nodes[i].isRecent]
                   = g.nodes[i]]_vars

\* a later build of an unchanged list with a node selected: a book read 29
\* days before the first build is no longer recent two days on
C19_Witness ==
    LET g == Graph
    IN /\ now = 2
       /\ selectedNode # NoNode
       /\ Len(g.links) > 0
       /\ \E i \in 1..Len(g.nodes) :
             g.nodes[i].dateRead = <<0 - 29>> /\ ~g.nodes[i].isRecent
       /\ \E i \in 1..Len(g.nodes) : g.nodes[i].isRecent

\* C20: the build returns exactly one node per book record, in list
\* order, with id equal to the record's id, or book-{index} (0-based) when
\* the id is missing; for an empty book list it returns an empty node list
\* and an empty edge list.
C20_OneNodePerBook ==
    LET g == Graph
    IN /\ Len(g.nodes) = Len(books)
       /\ \A k \in 1..Len(books) :
             /\ g.nodes[k].name = books[k].title
             /\ g.nodes[k].themes = books[k].themes
             /\ books[k].id # NoId => g.nodes[k].id = books[k].id
             /\ books[k].id = NoId => g.nodes[k].id = SynthTable[k]
       /\ books = <<>> => (g.nodes = <<>> /\ g.links = <<>>)

\* a list of three records, the second without id, the others with one
C20_Witness ==
    LET g == Graph
    IN /\ Len(g.nodes) = 3
       /\ books[1].id # NoId
       /\ books[2].id = NoId
       /\ books[3].id # NoId
       /\ g.nodes[2].id = "book-1"

\* C21: once the graph view is torn down, no animation frame is pending
\* and the animation callback never runs again, whichever point of the
\* cycle the teardown interrupts.
C21_PulseCancelledAtTeardown ==
    /\ [](pulse.view = "torn" => pulse.pending = {})
    /\ [][pulse.view = "torn" => pulse' = pulse]_vars

\* torn down after several frames, the last of which was throttled
C21_Witness ==
    /\ pulse.view = "torn"
    /\ pulse.frames >= 3
    /\ pulse.pulsePhase > 0
    /\ pulse.lastTime < pulse.currentTime

DistinctIds(list) ==
    \A i, j \in 1 .. Len(list) : i # j => list[i].id # list[j].id

\* C22: every book list produced by CSV ingest (the parsed list and the
\* list of read books kept from it) has pairwise distinct ids, also when
\* the Book Id column repeats a value or spells a derived id.
C22_IngestIdsDistinct ==
    DistinctIds(csv.parsedBooks) /\ DistinctIds(csv.readBooks)

\* the viewer's calendar day at the build, and whether the text names a day
BuiltToday == Today(recency.utcNow, recency.tz)
Dated == recency.dateRead.form \in {"iso", "slash"}

\* C23: isRecent is true for a book read today, at every hour and in every
\* time zone of the viewer, and false for a book read 31 days ago, for a
\* future date and for a missing or unparseable date.
C23_RecentWindow ==
    recency.built =>
        /\ Dated /\ recency.dateRead.day = BuiltToday => recency.isRecent
        /\ Dated /\ recency.dateRead.day = BuiltToday - 31
              => ~recency.isRecent
        /\ Dated /\ recency.dateRead.day > BuiltToday => ~recency.isRecent
        /\ ~Dated => ~recency.isRecent

\* the bucket of the largest threshold among 5, 4, 3, 2, 1 that is not
\* above a rating of so many stars, unrated below 1
BucketColors == <<"#DC143C", "#FF8C00", "#32CD32", "#4169E1", "#FFD700">>
Unrated == "#696969"
BucketOfStars(stars) ==
    IF stars < 1 THEN Unrated
    ELSE BucketColors[CHOOSE t \in 1 .. 5 :
                         t <= stars /\ \A u \in 1 .. 5 : u <= stars => u <= t]

AllDigits(text) == text # <<>> /\ \A k \in 1 .. Len(text) : text[k] \in Digits
NoDigits(text) == \A k \in 1 .. Len(text) : text[k] \notin Digits
IsNegative(text) == Len(text) >= 2 /\ text[1] = "-" /\ AllDigits(Tail(text))

\* C24: a whole-number rating gets the bucket of the largest threshold not
\* above it; a negative rating, a missing rating and a rating without
\* digits are unrated; "3 stars" is in the 3-star bucket.
C24_BucketOfRating ==
    paint.painted =>
        /\ AllDigits(paint.rating)
              => paint.color = BucketOfStars(DecimalValue(paint.rating))
        /\ IsNegative(paint.rating) => paint.color = Unrated
        /\ NoDigits(paint.rating) => paint.color = Unrated
        /\ paint.rating = ThreeStars => paint.color = BucketOfStars(3)

Capped(list) ==
    \A i \in 1 .. Len(list) :
        /\ Len(list[i].themes) <= 5
        /\ \A j \in 1 .. Len(list[i].themes) :
              Len(list[i].themes[j].quotes) <= 3

\* C25: after any sequence of enrichments every book record of the
\* session's list, in memory and as persisted, has at most 5 themes and
\* every theme at most 3 quotes, whatever the remote model returns.
C25_ThemesAndQuotesCapped == Capped(books) /\ Capped(stored)

IdsOf(list) == {list[k].id : k \in 1 .. Len(list)}

\* C26: a successful per-click enrichment merge removes no book: the
\* owner's list and the persisted list hold the same set of ids after the
\* merge as before it, also while a filter is active.
C26_MergeKeepsAllBooks ==
    [][(\E k \in 1 .. Len(calls), themes \in AnalysisResults :
           AnalyzeSuccess(k, themes))
       => IdsOf(books') = IdsOf(books) /\ IdsOf(stored') = IdsOf(stored)]_vars

\* C27: in every state in which no node is selected, the highlight set is
\* empty and no book is open in the quotes panel, also after an enrichment
\* call that was started before a Reset has resolved after it.
C27_NoSelectionNoHighlight ==
    selectedNode = NoNode => relatedNodeIds = {} /\ selectedBook = <<>>

\* C28: the enrichment-in-flight flag is true exactly while at least one
\* enrichment call started by a node click has not yet resolved, also when
\* calls for several nodes overlap.
C28_AnalyzingIffCallOutstanding == isAnalyzing <=> calls # <<>>

\* C29: for every sequence of response outcomes callGroqAPI ends, by
\* returning or by throwing, after at most maxRetries requests to each model
\* and so at most 2 * maxRetries requests in all.
C29_GroqTerminatesWithinRetries ==
    /\ [](/\ groq.sent[1] <= groq.maxRetries
          /\ groq.sent[2] <= groq.maxRetries
          /\ groq.sent[1] + groq.sent[2] <= 2 * groq.maxRetries)
    /\ [](groq.pc = "done" => groq.result \in {"returned", "threw"})
    /\ (groq.pc # "idle") ~> (groq.pc = "done")

\* both models have used up their retries and the call has thrown
C29_Witness ==
    /\ groq.pc = "done"
    /\ groq.result = "threw"
    /\ groq.maxRetries = 3
    /\ groq.sent = <<3, 3>>

\* how a request that did not succeed ended
Failures == Outcomes \ {"ok"}

\* C30: a request goes to the fallback model only after the primary model
\* has failed (unavailable, non-retryable client error, or retries used up),
\* and once a request has succeeded its content is returned and no further
\* request is sent.
C30_FallbackAfterFailureStopAtSuccess ==
    /\ [](groq.sent[2] > 0 =>
             \/ groq.last[1] \in {"unavailable", "client"}
             \/ groq.sent[1] = groq.maxRetries /\ groq.last[1] \in Failures)
    /\ [](\A m \in 1 .. 2 : groq.last[m] = "ok" =>
             groq.pc = "done" /\ groq.result = "returned")
    /\ [][(groq.last[1] = "ok" \/ groq.last[2] = "ok") => groq' = groq]_vars
    /\ [][\A outcome \in Outcomes, content \in Contents :
             GroqResponse(outcome, content) /\ outcome = "ok"
                => groq'.result = "returned" /\ groq'.value = content]_vars

\* the fallback model answered after the primary was used up
C30_Witness ==
    /\ groq.result = "returned"
    /\ groq.value = "{json}"
    /\ groq.sent[1] = groq.maxRetries
    /\ groq.maxRetries >= 2
    /\ groq.sent[2] >= 2
    /\ groq.last = <<"server", "ok">>

\* responses with a 4xx status other than 429
ClientErrors == {"unavailable", "client", "client5"}

\* C31: a response with a 4xx status other than 429 is never followed by
\* another request to the same model (the primary gives way to the
\* fallback, the fallback fails at once), and only 429, 5xx and network
\* errors are retried with backoff.
C31_ClientErrorsNotRetried ==
    [][\A outcome \in Outcomes :
          GroqResponse(outcome, "") =>
             /\ outcome \in ClientErrors =>
                   /\ groq'.pc # "backoff"
                   /\ groq.model = 1 => groq'.model = 2 \/ groq'.pc = "done"
                   /\ groq.model = 2 =>
                         groq'.pc = "done" /\ groq'.result = "threw"
             /\ groq'.pc = "backoff" =>
                   outcome \in {"rate", "server", "network"}]_vars

SpecificFilters == FilterNames \ {"all"}

\* C32: in every filter state reached through checkbox changes, "all" and
\* a specific filter are never both checked.
C32_AllExcludesSpecific ==
    \A f \in SpecificFilters : ~(activeFilters["all"] /\ activeFilters[f])

\* two specific filters checked one after the other
C32_Witness ==
    /\ activeFilters["topRated"]
    /\ activeFilters["fiction"]
    /\ ~activeFilters["all"]

\* C33: in every filter state reached through checkbox changes, "all" is
\* checked exactly when no specific filter is, so the state with every
\* checkbox unchecked is unreachable.
C33_AllIffNoSpecific ==
    activeFilters["all"] <=> \A f \in SpecificFilters : ~activeFilters[f]

\* every record has an id and the ids are pairwise distinct
IdsPresentAndDistinct ==
    \A i, j \in 1 .. Len(books) :
        books[i].id # NoId /\ (i # j => books[i].id # books[j].id)

\* the books A{X}, B{X, Y}, C{Y} of the scenario, in this order
IsScenarioABC ==
    /\ Len(books) = 3
    /\ ThemeNamesOf(books[1]) = <<"X">>
    /\ ThemeNamesOf(books[2]) = <<"X", "Y">>
    /\ ThemeNamesOf(books[3]) = <<"Y">>

\* C34: for a list whose records have pairwise distinct ids, the build has
\* an edge between two books exactly when they share a theme name (so a
\* book without themes has no edge), and for A{X}, B{X, Y}, C{Y} the edges
\* are exactly A-B labelled X and B-C labelled Y.
C34_EdgeIffSharedTheme ==
    LET g == Graph
    IN IdsPresentAndDistinct =>
        /\ \A i, j \in 1 .. Len(books) :
              i < j =>
                 ((NameSet(books[i]) \cap NameSet(books[j]) # {})
                    <=> \E e \in 1 .. Len(g.links) :
                           {g.links[e].source, g.links[e].target}
                              = {books[i].id, books[j].id})
        /\ IsScenarioABC =>
              EdgeSet(g) = {<<books[1].id, books[2].id, "X">>,
                            <<books[2].id, books[3].id, "Y">>}

C34_Witness ==
    /\ mounted
    /\ IdsPresentAndDistinct
    /\ IsScenarioABC
    /\ Len(Graph.links) = 2

\* C35: once the graph page has loaded its books, in every state reached
\* by clicks, enrichment completions in any order, resets and filter
\* changes the persisted book list equals the owner's in-memory list.
C35_PersistedEqualsOwned == mounted => stored = books

\* a merge under an active filter, which rewrote both lists
C35_Witness ==
    /\ mounted
    /\ ~activeFilters["all"]
    /\ event.op = "success"
    /\ Len(books) = 1
    /\ books[1].themes # <<>>
    /\ stored = books

\* C36: the container's node-selected flag is true only while the graph
\* has a selected node; a notification delivered by its timer after a reset
\* does not leave the flag true with nothing selected.
C36_FlagOnlyWhileSelected == isNodeSelected => selectedNode # NoNode

\* a record of the enriched list without what the enrichment added
AsParsed(book) ==
    [id |-> book.id, title |-> book.title, author |-> book.author,
     rating |-> book.rating]

\* C37: bulk enrichment analyses the rated books one at a time in list
\* order; whatever analyses fail, the list handed to the graph page holds
\* exactly the rated books in their order, a book whose analysis failed
\* with empty themes and quotes, and it is handed over only after the last
\* book has been processed.
C37_HandOverKeepsRatedBooks ==
    LET done == upload.analyzedBooks
    IN /\ upload.pc \in {"analyzing", "delay"} =>
             /\ upload.readBooks = filteredReadBooks(csv.parsedBooks)
             /\ Len(done) = upload.i + (IF upload.pc = "delay" THEN 1 ELSE 0)
             /\ Len(done) < Len(upload.readBooks) + (IF upload.pc = "delay" THEN 1 ELSE 0)
             /\ upload.state = <<>>
       /\ \A k \in 1 .. Len(done) :
             /\ AsParsed(done[k]) = upload.readBooks[k]
             /\ k \in upload.failed =>
                    done[k].themes = <<>> /\ done[k].quotes = <<>>
       /\ upload.state # <<>> =>
             /\ upload.state[1] = done
             /\ Len(done) = Len(upload.readBooks)
             /\ upload.readBooks = filteredReadBooks(csv.parsedBooks)

\* a hand-over of two rated books from a file that also holds an unrated
\* one: the first analysis failed, the second returned a theme
C37_Witness ==
    /\ upload.pc = "navigated"
    /\ Len(csv.parsedBooks) > Len(upload.readBooks)
    /\ Len(upload.state[1]) = 2
    /\ upload.failed = {1}
    /\ upload.state[1][2].themes # <<>>

\* the "Total connections" figure of the filter sidebar, computed from the
\* length of the filtered list alone
Min(a, b) == IF a < b THEN a ELSE b

Max(a, b) == IF a > b THEN a ELSE b

totalConnections(filteredList) ==
    IF Len(filteredList) = 0 THEN 0
    ELSE IF Len(filteredList) = 1 THEN 0
    ELSE Min((Len(filteredList) * 15) \div 10,
             Max(1, Len(filteredList) - 1))

\* C38: the "Total connections" number of the filter sidebar equals the
\* number of edges that the graph build produces for the same filtered list.
C38_TotalConnectionsIsEdgeCount ==
    mounted => totalConnections(filteredBooks) = Len(Graph.links)

====
